---- MODULE Spec2Model ----
(***************************************************************************)
(* A model of the krapper listing scraper (scraper.py): the listing store  *)
(* (DatabaseManager), the throttled notifier (send_notification), the      *)
(* price parser, the robots gate (validate_urls) and the one-site-at-a-    *)
(* time spider (Pavouk) driven by the crawling engine.                     *)
(*                                                                         *)
(* Python strings are sequences of one-character strings, so that          *)
(* sanitising, joining and prefix tests are computed character by          *)
(* character.  Python's None is the value None for strings and NoPrice for *)
(* prices.                                                                 *)
(***************************************************************************)
EXTENDS Integers, Sequences, FiniteSets, TLC

VARIABLES
    listings,                \* rows of the listings table (persistent), in rowid order
    new_listings,            \* DatabaseManager.new_listings of the current session
    session,                 \* number of the current run against the same database file
    listings0,               \* rows the table held when the current session opened it
    calls,                   \* history: the insert_listing calls of InsertListing
    now,                     \* time.time(), in seconds since the process started
    last_notification_time,  \* the module global of that name
    notes,                   \* history: the send_notification calls made so far
    proc,                    \* "running", or "crashed" after an uncaught exception
    cfg_urls,                \* the urls handed to validate_urls
    robots,                  \* what GET https://<domain>/robots.txt answers
    valid_urls,              \* what validate_urls returned
    pc,                      \* where the main block and the crawl stand
    urls,                    \* Pavouk.urls
    current_url_index,       \* Pavouk.current_url_index
    inflight,                \* requests handed to the engine and not yet answered
    fetched,                 \* history: the urls requested so far, in order
    failed,                  \* history: the urls whose download failed
    response,                \* history: the last response handed to parse
    offered,                 \* history: what parse passed to insert_listing for it
    served,                  \* history: the number of listing items the pages held so far
    connection,              \* db_manager.connection: "unbound" while the name db_manager
                             \* is not defined, then "open" or "closed"
    signalled                \* history: "no", or how signal_handler ended

storeVars == <<listings, new_listings, session, listings0, calls>>
notifyVars == <<now, last_notification_time, notes, proc>>
gateVars == <<cfg_urls, robots, valid_urls>>
crawlVars == <<pc, urls, current_url_index, inflight, fetched, failed,
               response, offered, served, connection, signalled>>
vars == <<storeVars, notifyVars, gateVars, crawlVars>>

(***************************************************************************)
(* Strings                                                                 *)
(***************************************************************************)
None == <<"None">>
NoPrice == -1

Lowercase == <<"a","b","c","d","e","f","g","h","i","j","k","l","m",
               "n","o","p","q","r","s","t","u","v","w","x","y","z">>
Uppercase == <<"A","B","C","D","E","F","G","H","I","J","K","L","M",
               "N","O","P","Q","R","S","T","U","V","W","X","Y","Z">>
Digits == <<"0","1","2","3","4","5","6","7","8","9">>

Range(s) == {s[i] : i \in DOMAIN s}

UpperChars == Range(Uppercase)
DigitChars == Range(Digits)
WordChars == Range(Lowercase) \cup UpperChars \cup DigitChars \cup {"_"}

\* \w of the re module: letters, digits and the underscore
IsWord(c) == c \in WordChars

\* \s of the re module, and what str.strip() removes
IsSpace(c) == c \in {" ", "\t", "\n"}

\* the lower-case letter of each upper-case letter
LowerOf == [c \in UpperChars |-> Lowercase[CHOOSE i \in DOMAIN Uppercase : Uppercase[i] = c]]

\* str.lower() on one character
LowerChar(c) == IF c \in UpperChars THEN LowerOf[c] ELSE c

\* str.lower()
Lower(s) == [i \in DOMAIN s |-> LowerChar(s[i])]

\* str.strip()
Strip(s) ==
    LET keep == {i \in DOMAIN s : ~IsSpace(s[i])}
    IN  IF keep = {} THEN <<>>
        ELSE LET lo == CHOOSE i \in keep : \A j \in keep : i <= j
                 hi == CHOOSE i \in keep : \A j \in keep : j <= i
             IN  SubSeq(s, lo, hi)

\* s.startswith(p)
StartsWith(s, p) == Len(p) <= Len(s) /\ SubSeq(s, 1, Len(p)) = p

\* p in s, for strings
Contains(s, p) ==
    \E i \in 1..(Len(s) - Len(p) + 1) : SubSeq(s, i, i + Len(p) - 1) = p

\* s[i:], with i counted from 1
From(s, i) == SubSeq(s, i, Len(s))

(***************************************************************************)
(* DatabaseManager                                                         *)
(***************************************************************************)
\* the substitution of sanitize_input: the characters re.sub keeps
SanitizeKeeps(c) == IsWord(c) \/ IsSpace(c) \/ c = "-"

sanitize_input(data) == Lower(Strip(SelectSeq(data, SanitizeKeeps)))

\* what the sqlite3 calls of one insert_listing do: nothing goes wrong, execute
\* raises sqlite3.Error, or the commit on leaving the with block raises it
Faults == {"none", "execute", "commit"}

\* Python's truth test of a str argument
Truthy(s) == s # None /\ s # <<>>

\* the guard of insert_listing
Accepts(title, link, price) == Truthy(title) /\ Truthy(link) /\ price # NoPrice

\* UNIQUE(title, link): the row INSERT OR IGNORE would collide with
HasKey(rows, title, link) == \E i \in DOMAIN rows : rows[i][1] = title /\ rows[i][2] = link

\* insert_listing without the test of cursor.rowcount: every accepted call that
\* executes is recorded as new
insert_listing_no_rowcount(db, title, link, price, fault) ==
    IF ~Accepts(title, link, price) THEN db
    ELSE LET t == sanitize_input(title)
             l == sanitize_input(link)
         IN  IF fault = "execute" THEN db
             ELSE [listings |-> IF fault = "commit" \/ HasKey(db.listings, t, l)
                                THEN db.listings
                                ELSE Append(db.listings, <<t, l, price>>),
                   new_listings |-> Append(db.new_listings, <<t, l, price>>)]

\* insert_listing with INSERT OR REPLACE: the row that holds the key is deleted
\* and the new one is written in its place
insert_listing_replace(db, title, link, price, fault) ==
    IF ~Accepts(title, link, price) THEN db
    ELSE LET t == sanitize_input(title)
             l == sanitize_input(link)
             others == SelectSeq(db.listings, LAMBDA r : ~(r[1] = t /\ r[2] = l))
         IN  IF fault = "execute" THEN db
             ELSE [listings |-> IF fault = "commit"
                                THEN db.listings
                                ELSE Append(others, <<t, l, price>>),
                   new_listings |-> Append(db.new_listings, <<t, l, price>>)]

\* insert_listing on the pair db = [listings, new_listings]
insert_listing(db, title, link, price, fault) ==
    IF ~Accepts(title, link, price) THEN db
    ELSE LET t == sanitize_input(title)
             l == sanitize_input(link)
         IN  IF fault = "execute" THEN db
             ELSE IF HasKey(db.listings, t, l) THEN db     \* rowcount = 0
             ELSE [listings |-> IF fault = "commit"
                                THEN db.listings           \* rolled back
                                ELSE Append(db.listings, <<t, l, price>>),
                   new_listings |-> Append(db.new_listings, <<t, l, price>>)]

\* DatabaseManager.__init__ on a database file that holds the rows `rows`
\* (CREATE TABLE IF NOT EXISTS keeps them), as the pair [listings, new_listings]
DatabaseManager(rows) == [listings |-> rows, new_listings |-> <<>>]

\* close, on the state of the connection
close(conn) == IF conn = "open" THEN "closed" ELSE conn

\* get_new_listings
get_new_listings == new_listings

\* fetch_all_listings
fetch_all_listings == listings

(***************************************************************************)
(* Bounds and inputs of the store specification                            *)
(***************************************************************************)
MaxCalls == 2
MaxSessions == 2

\* what parse can pass: any title text, an absolute link, a price within the band
StoreTitles == {<<>>, <<"!">>, <<"A","b">>, <<"a","b","!">>}
StoreLinks == {<<"a","/","x">>, <<"a","/","y">>}
StorePrices == {1200, 1500}

InitStore ==
    /\ listings = <<>>
    /\ new_listings = DatabaseManager(<<>>).new_listings
    /\ session = 1
    /\ listings0 = <<>>
    /\ calls = <<>>

\* one call of insert_listing, from any caller
InsertListing ==
    /\ Len(calls) < MaxCalls
    /\ \E title \in StoreTitles, link \in StoreLinks, price \in StorePrices :
       \E fault \in (IF Accepts(title, link, price) THEN Faults ELSE {"none"}) :
          LET db == insert_listing([listings |-> listings, new_listings |-> new_listings],
                                   title, link, price, fault)
          IN  /\ listings' = db.listings
              /\ new_listings' = db.new_listings
              /\ calls' = Append(calls,
                     [session |-> session, title |-> title, link |-> link,
                      price |-> price, fault |-> fault,
                      new |-> Len(db.new_listings) > Len(new_listings),
                      stored |-> Len(db.listings) > Len(listings)])
    /\ UNCHANGED <<session, listings0>>
    /\ UNCHANGED <<notifyVars, gateVars, crawlVars>>

\* the process ends and a later run opens the same listings.db
NewSession ==
    /\ session < MaxSessions
    /\ session' = session + 1
    /\ listings' = DatabaseManager(listings).listings
    /\ new_listings' = DatabaseManager(listings).new_listings
    /\ listings0' = listings
    /\ UNCHANGED calls
    /\ UNCHANGED <<notifyVars, gateVars, crawlVars>>

(***************************************************************************)
(* send_notification                                                       *)
(***************************************************************************)
\* the throttle window of send_notification, in seconds
ThrottleWindow == 3600

\* what the SMTP exchange of one dispatch does: it succeeds, it raises
\* smtplib.SMTPException (caught), or it raises another exception such as the
\* OSError of a refused connection (not caught)
Transports == {"ok", "smtp_error", "os_error"}

\* send_notification that never assigns last_notification_time
send_notification_no_stamp(last, t, new, transport) ==
    IF t - last < ThrottleWindow
    THEN [last |-> last, result |-> "throttled"]
    ELSE IF new = <<>>
    THEN [last |-> last, result |-> "empty"]
    ELSE [last |-> last,
          result |-> CASE transport = "ok" -> "sent"
                       [] transport = "smtp_error" -> "failed"
                       [] OTHER -> "raised"]

\* send_notification without the test of the elapsed time
send_notification_unthrottled(last, t, new, transport) ==
    IF new = <<>>
    THEN [last |-> t, result |-> "empty"]
    ELSE [last |-> t,
          result |-> CASE transport = "ok" -> "sent"
                       [] transport = "smtp_error" -> "failed"
                       [] OTHER -> "raised"]

\* send_notification(new) called at time t with the global at `last`:
\* the new value of the global and how the call ended.  The two readings of
\* time.time() in one call are taken to give the same second.
send_notification(last, t, new, transport) ==
    IF t - last < ThrottleWindow
    THEN [last |-> last, result |-> "throttled"]
    ELSE IF new = <<>>
    THEN [last |-> t, result |-> "empty"]
    ELSE [last |-> t,
          result |-> CASE transport = "ok" -> "sent"
                       [] transport = "smtp_error" -> "failed"
                       [] OTHER -> "raised"]

(***************************************************************************)
(* Bounds and inputs of the notifier specification                         *)
(***************************************************************************)
MaxNotes == 3
MaxTime == 10800

\* how far the clock moves between two observations
Steps == {1800, 3601}

\* the lists handed to send_notification
NotifyArgs == {<<>>, <<<<<<"a","b">>, <<"a","x">>, 1200>>>>}

InitNotify ==
    /\ now = 0
    /\ last_notification_time = 0      \* time.time() when the module is loaded
    /\ notes = <<>>
    /\ proc = "running"

\* time passes
Tick ==
    /\ proc = "running"
    /\ \E d \in Steps : now + d <= MaxTime /\ now' = now + d
    /\ UNCHANGED <<last_notification_time, notes, proc>>
    /\ UNCHANGED <<storeVars, gateVars, crawlVars>>

\* one call of send_notification
SendNotification ==
    /\ proc = "running"
    /\ Len(notes) < MaxNotes
    /\ \E new \in NotifyArgs, transport \in Transports :
          LET r == send_notification(last_notification_time, now, new, transport)
          IN  /\ last_notification_time' = r.last
              /\ notes' = Append(notes,
                     [t |-> now, nonempty |-> new # <<>>, result |-> r.result,
                      before |-> last_notification_time, after |-> r.last])
              /\ proc' = IF r.result = "raised" THEN "crashed" ELSE "running"
    /\ UNCHANGED now
    /\ UNCHANGED <<storeVars, gateVars, crawlVars>>

(***************************************************************************)
(* validate_urls                                                           *)
(***************************************************************************)
S_http == <<"h","t","t","p",":","/","/">>
S_https == <<"h","t","t","p","s",":","/","/">>
S_Disallow == <<"D","i","s","a","l","l","o","w",":">>

\* SCRAPY_SETTINGS['USER_AGENT']
USER_AGENT == <<"m","y","_","s","c","r","a","p","e","r">>

\* the length of the scheme and "://" that url_pattern accepts at the start of
\* url (re.IGNORECASE), 0 when there is none
SchemeLen(url) ==
    IF StartsWith(Lower(url), S_https) THEN Len(S_https)
    ELSE IF StartsWith(Lower(url), S_http) THEN Len(S_http)
    ELSE 0

\* url_pattern.match(url): ^(?:http|https)://[^\s/$.?#].[^\s]*$
UrlPatternMatches(url) ==
    /\ SchemeLen(url) > 0
    /\ LET rest == From(url, SchemeLen(url) + 1)
       IN  /\ Len(rest) >= 2
           /\ ~IsSpace(rest[1])
           /\ rest[1] \notin {"/", "$", ".", "?", "#"}
           /\ rest[2] # "\n"
           /\ \A i \in 3..Len(rest) : ~IsSpace(rest[i])

\* the first index of s, from index `from` on, that holds a character of `stops`;
\* Len(s) + 1 when there is none
FirstOf(s, from, stops) ==
    LET hits == {i \in from..Len(s) : s[i] \in stops}
    IN  IF hits = {} THEN Len(s) + 1
        ELSE CHOOSE i \in hits : \A j \in hits : i <= j

\* the index where "//" ends in url, 0 when url has no "scheme://"
AuthorityStart(url) ==
    LET c == FirstOf(url, 1, {":"})
    IN  IF c + 2 <= Len(url) /\ url[c + 1] = "/" /\ url[c + 2] = "/" THEN c + 3 ELSE 0

\* urlparse(url).netloc
Netloc(url) ==
    IF AuthorityStart(url) = 0 THEN <<>>
    ELSE SubSeq(url, AuthorityStart(url),
                FirstOf(url, AuthorityStart(url), {"/", "?", "#"}) - 1)

\* line.split(' ')[-1]
LastToken(line) ==
    LET sp == {i \in DOMAIN line : line[i] = " "}
    IN  IF sp = {} THEN line
        ELSE From(line, 1 + CHOOSE i \in sp : \A j \in sp : j <= i)

\* disallowed_paths, as a set: the order plays no part in any()
DisallowedPaths(text, user_agent) ==
    {LastToken(text[i]) : i \in {j \in DOMAIN text :
                                    /\ StartsWith(text[j], S_Disallow)
                                    /\ Contains(text[j], user_agent)}}

\* the answer of requests.get(robots_url): requests.RequestException, or a
\* response with a status code and the lines of its text
RobotsAnswers(texts) ==
    {[outcome |-> "exception", status_code |-> 0, text |-> <<>>],
     [outcome |-> "response", status_code |-> 404, text |-> <<>>]}
    \cup {[outcome |-> "response", status_code |-> 200, text |-> t] : t \in texts}

\* whether the loop body of validate_urls adds url to valid_urls
Admits(url, answer, user_agent) ==
    /\ UrlPatternMatches(url)
    /\ answer.outcome = "response"
    /\ answer.status_code = 200
    /\ ~\E path \in DisallowedPaths(answer.text, user_agent) :
           StartsWith(url, S_https \o Netloc(url) \o path)

\* validate_urls, as the set it collects (list(valid_urls) has no fixed order)
validate_urls(us, answer) ==
    {us[i] : i \in {j \in DOMAIN us : Admits(us[j], answer, USER_AGENT)}}

(***************************************************************************)
(* Bounds and inputs of the gate specification                             *)
(***************************************************************************)
MaxUrls == 2

U_list == <<"h","t","t","p","s",":","/","/","a",".","e","x","a","m","p","l","e","/","l","i","s","t">>
U_private == <<"h","t","t","p","s",":","/","/","a",".","e","x","a","m","p","l","e","/","p","r","i","v","a","t","e","/","x">>
U_http_private == <<"h","t","t","p",":","/","/","a",".","e","x","a","m","p","l","e","/","p","r","i","v","a","t","e","/","x">>
U_agent_path == <<"h","t","t","p","s",":","/","/","a",".","e","x","a","m","p","l","e","/","m","y","_","s","c","r","a","p","e","r">>
U_ftp == <<"f","t","p",":","/","/","a",".","e","x","a","m","p","l","e","/","l","i","s","t">>

UrlPool == {U_list, U_private, U_http_private, U_agent_path, U_ftp}

\* the url lists of a configuration: up to MaxUrls urls of the pool, repeats allowed
ListsOver(pool) == UNION {[1..n -> pool] : n \in 0..MaxUrls}
UrlLists == ListsOver(UrlPool)

L_agent == <<"U","s","e","r","-","a","g","e","n","t",":"," ","m","y","_","s","c","r","a","p","e","r">>
L_star == <<"U","s","e","r","-","a","g","e","n","t",":"," ","*">>
L_other == <<"U","s","e","r","-","a","g","e","n","t",":"," ","o","t","h","e","r">>
L_private == <<"D","i","s","a","l","l","o","w",":"," ","/","p","r","i","v","a","t","e">>
L_agent_path == <<"D","i","s","a","l","l","o","w",":"," ","/","m","y","_","s","c","r","a","p","e","r">>

\* the robots.txt texts the host may serve, as lines
RobotsTexts ==
    {<<>>, <<L_agent, L_private>>, <<L_star, L_private>>, <<L_other, L_private>>,
     <<L_agent, L_agent_path>>, <<L_other, L_private, L_agent, L_private>>}

Unasked == [outcome |-> "unasked", status_code |-> 0, text |-> <<>>]

InitGate ==
    /\ cfg_urls = <<>>
    /\ robots = Unasked
    /\ valid_urls = {}

\* one call of validate_urls; every url of the pool is at the same host, so one
\* answer stands for the robots.txt of each url
ValidateUrls ==
    /\ robots = Unasked
    /\ \E us \in UrlLists, answer \in RobotsAnswers(RobotsTexts) :
          /\ cfg_urls' = us
          /\ robots' = answer
          /\ valid_urls' = validate_urls(us, answer)
    /\ UNCHANGED <<storeVars, notifyVars, crawlVars>>

(***************************************************************************)
(* parse_price, urljoin and the extraction of Pavouk.parse                 *)
(***************************************************************************)
\* SEARCH_CONFIG['price_range'] of the default configuration
min_price == 1000
max_price == 2000

IsDigit(c) == c \in DigitChars

DigitValue(c) == (CHOOSE i \in DOMAIN Digits : Digits[i] = c) - 1

\* int() of a string of digits
RECURSIVE ToInt(_)
ToInt(ds) ==
    IF ds = <<>> THEN 0
    ELSE 10 * ToInt(SubSeq(ds, 1, Len(ds) - 1)) + DigitValue(ds[Len(ds)])

\* parse_price: Price.fromstring finds the first number of the text, drops the
\* currency symbol and the thousands separators, and int() truncates the amount;
\* a text with no number has amount None.  (Texts that use "." as a thousands
\* separator are not in the pool of inputs.)
parse_price(price_str) ==
    LET first == FirstOf(price_str, 1, DigitChars)
        stop == CHOOSE i \in first..(Len(price_str) + 1) :
                   /\ i = Len(price_str) + 1 \/ ~(IsDigit(price_str[i]) \/ price_str[i] = ",")
                   /\ \A j \in first..(i - 1) : IsDigit(price_str[j]) \/ price_str[j] = ","
    IN  IF first > Len(price_str) THEN NoPrice
        ELSE ToInt(SelectSeq(SubSeq(price_str, first, stop - 1), IsDigit))

\* the index where the path of an absolute url starts, Len(url) + 1 when it has none
PathStart(url) == FirstOf(url, AuthorityStart(url), {"/", "?", "#"})

\* the index of the last "/" of the path of base, 0 when it has no path
LastSlash(base) ==
    LET sl == {i \in PathStart(base)..Len(base) : base[i] = "/"}
    IN  IF sl = {} THEN 0 ELSE CHOOSE i \in sl : \A j \in sl : j <= i

\* urllib.parse.urljoin(base, url) for an absolute base
urljoin(base, url) ==
    IF url = None \/ url = <<>> THEN base
    ELSE IF AuthorityStart(url) > 0 THEN url
    ELSE IF url[1] = "/" THEN SubSeq(base, 1, PathStart(base) - 1) \o url
    ELSE IF LastSlash(base) = 0 THEN base \o <<"/">> \o url
    ELSE SubSeq(base, 1, LastSlash(base)) \o url

S_no_title == <<"N","o"," ","t","i","t","l","e"," ","f","o","u","n","d">>
S_no_price == <<"N","o"," ","p","r","i","c","e"," ","f","o","u","n","d">>

\* re.sub(r'<.*?>', '', element).strip() if element else fallback, where an
\* element that was found is given by the text between its tags (the markup
\* itself is never empty) and one that was not found is None
TextOf(element, fallback) == IF element = None THEN fallback ELSE Strip(element)

\* the price test of parse with both comparisons strict
InBand_exclusive(price) == price # NoPrice /\ min_price < price /\ price < max_price

\* the condition under which parse hands a candidate to insert_listing
InBand(price) == price # NoPrice /\ min_price <= price /\ price <= max_price

\* title, price and link of each item of the page, as the loop of parse computes them
Candidates(url, items) ==
    [i \in DOMAIN items |->
        [title |-> TextOf(items[i].title, S_no_title),
         price |-> parse_price(TextOf(items[i].price, S_no_price)),
         link |-> urljoin(url, items[i].href)]]

\* the candidates parse passes to insert_listing, in page order
InBandOf(c) == InBand(c.price)

\* the extraction of parse where a price text without an amount raises out of
\* the loop: the items after it are never reached
Offers_until_unparsable(url, items) ==
    LET c == Candidates(url, items)
        bad == {i \in DOMAIN c : c[i].price = NoPrice}
        n == IF bad = {} THEN Len(c) ELSE (CHOOSE i \in bad : \A j \in bad : i <= j) - 1
    IN  SelectSeq(SubSeq(c, 1, n), InBandOf)

Offers(url, items) == SelectSeq(Candidates(url, items), InBandOf)

\* the insert_listing calls of one parse, in order, on db
RECURSIVE InsertAll(_, _, _)
InsertAll(db, offers, faults) ==
    IF offers = <<>> THEN db
    ELSE LET n == Len(offers)
             before == InsertAll(db, SubSeq(offers, 1, n - 1), faults)
         IN  insert_listing(before, offers[n].title, offers[n].link,
                            offers[n].price, faults[n])

\* make_request returning a request for every url from the cursor on
make_request_all(us, index) == {us[i] : i \in (index + 1)..Len(us)}

\* make_request: the request it returns, as a set of at most one url
make_request(us, index) == IF index < Len(us) THEN {us[index + 1]} ELSE {}

(***************************************************************************)
(* Bounds and inputs of the crawl                                          *)
(***************************************************************************)
MaxItems == 2

T_nice == <<"N","i","c","e"," ","F","l","a","t">>
P_1200 == <<"$","1",",","2","0","0">>
P_1000 == <<"$","1",",","0","0","0">>
P_2000 == <<"$","2",",","0","0","0">>
P_999 == <<"$","9","9","9">>
P_2001 == <<"$","2",",","0","0","1">>
P_request == <<"P","r","i","c","e"," ","o","n"," ","r","e","q","u","e","s","t">>
H_x == <<"/","x">>

Item(title, price, href) == [title |-> title, price |-> price, href |-> href]

\* the listing items a page may hold
Items ==
    {Item(T_nice, P_1200, H_x), Item(None, P_1000, H_x), Item(T_nice, P_2000, None),
     Item(T_nice, P_999, H_x), Item(T_nice, P_2001, H_x), Item(T_nice, P_request, H_x),
     Item(<<>>, None, H_x)}

\* the pages of up to n items; MaxItems bounds the items of all pages of a run
Pages(n) == UNION {[1..k -> Items] : k \in 0..n}

\* the urls of the configurations that are crawled
CrawlPool == {U_list, U_private, U_ftp}

\* the orders list(valid_urls) may have
Orders(S) == {o \in [1..Cardinality(S) -> S] : \A i, j \in DOMAIN o : o[i] = o[j] => i = j}

NoResponse == [url |-> None, selected |-> FALSE, items |-> <<>>]

InitCrawl ==
    /\ pc = "main"
    /\ urls = <<>>
    /\ current_url_index = 0
    /\ inflight = {}
    /\ fetched = <<>>
    /\ failed = {}
    /\ response = NoResponse
    /\ offered = <<>>
    /\ served = 0
    /\ connection = "unbound"
    /\ signalled = "no"

\* the main block up to process.crawl: validate_urls, exit(1) when nothing is
\* admitted, else DatabaseManager() and Pavouk.__init__.  Of the call of
\* validate_urls only its result is kept; cfg_urls and robots record the
\* arguments of ValidateUrls alone.
MainStart ==
    /\ pc = "main"
    /\ \E us \in ListsOver(CrawlPool), answer \in RobotsAnswers(RobotsTexts) :
          LET admitted == validate_urls(us, answer)
          IN  /\ valid_urls' = admitted
              /\ IF admitted = {}
                 THEN /\ pc' = "exit1"
                      /\ UNCHANGED <<urls, listings, new_listings, connection>>
                 ELSE /\ pc' = "start"
                      /\ urls' \in Orders(admitted)
                      /\ connection' = "open"
                      /\ listings' = DatabaseManager(listings).listings
                      /\ new_listings' = DatabaseManager(listings).new_listings
    /\ current_url_index' = 0
    /\ UNCHANGED <<inflight, fetched, failed, response, offered, served, signalled>>
    /\ UNCHANGED <<session, listings0, calls, cfg_urls, robots, notifyVars>>

\* start_requests, called once by the engine when process.start() runs
StartRequests ==
    /\ pc = "start"
    /\ pc' = "running"
    /\ inflight' = inflight \cup make_request(urls, current_url_index)
    /\ fetched' = fetched \o [i \in 1..Cardinality(make_request(urls, current_url_index))
                                |-> urls[current_url_index + 1]]
    /\ UNCHANGED <<urls, current_url_index, failed, response, offered, served,
                   connection, signalled>>
    /\ UNCHANGED <<storeVars, notifyVars, gateVars>>

\* the engine downloads a request and calls its callback, parse
Parse ==
    /\ pc = "running"
    /\ \E u \in inflight, selected \in BOOLEAN :
       \E items \in (IF selected THEN Pages(MaxItems - served) ELSE {<<>>}) :
          LET offers == IF selected THEN Offers(u, items) ELSE <<>>
              index == current_url_index + 1
              next == make_request(urls, index)
          IN  \E faults \in [DOMAIN offers -> Faults] :
                 LET db == InsertAll([listings |-> listings, new_listings |-> new_listings],
                                     offers, faults)
                 IN  /\ listings' = db.listings
                     /\ new_listings' = db.new_listings
                     /\ current_url_index' = index
                     /\ inflight' = (inflight \ {u}) \cup next
                     /\ fetched' = fetched \o [i \in 1..Cardinality(next) |-> urls[index + 1]]
                     /\ response' = [url |-> u, selected |-> selected, items |-> items]
                     /\ served' = served + Len(items)
                     /\ offered' = [i \in DOMAIN offers |->
                                       [title |-> offers[i].title, link |-> offers[i].link,
                                        price |-> offers[i].price, fault |-> faults[i]]]
    /\ UNCHANGED <<pc, urls, failed, connection, signalled>>
    /\ UNCHANGED <<session, listings0, calls, notifyVars, gateVars>>

\* the download of a request fails (or ends in a non-2xx status): the request has
\* no errback, so the engine logs the failure and calls nothing
FetchFail ==
    /\ pc = "running"
    /\ \E u \in inflight :
          /\ inflight' = inflight \ {u}
          /\ failed' = failed \cup {u}
    /\ UNCHANGED <<pc, urls, current_url_index, fetched, response, offered, served,
                   connection, signalled>>
    /\ UNCHANGED <<storeVars, notifyVars, gateVars>>

\* no request is left: the spider closes, process.start() returns and the main
\* block reads the listings and closes the database
MainFinish ==
    /\ pc = "running"
    /\ inflight = {}
    /\ pc' = "finished"
    /\ connection' = close(connection)
    /\ UNCHANGED <<urls, current_url_index, inflight, fetched, failed, response, offered,
                   served, signalled>>
    /\ UNCHANGED <<storeVars, notifyVars, gateVars>>

\* SIGINT or SIGTERM arrives while the main block runs, and signal_handler is
\* called: db_manager.close() and exit(0).  The name db_manager is bound only
\* once the main block has passed validate_urls and the test of its result;
\* before that the handler raises NameError, which nothing catches: the
\* process ends with a traceback and the database was never opened.  (While
\* process.start() runs, the action gives what signal_handler does when it is
\* the handler that is called.)
Signal ==
    /\ pc \in {"main", "start", "running"}
    /\ IF connection = "unbound"
       THEN /\ signalled' = "raised"
            /\ pc' = "traceback"
            /\ UNCHANGED connection
       ELSE /\ signalled' = "handled"
            /\ pc' = "exit0"
            /\ connection' = close(connection)
    /\ UNCHANGED <<urls, current_url_index, inflight, fetched, failed, response, offered,
                   served>>
    /\ UNCHANGED <<storeVars, notifyVars, gateVars>>

(***************************************************************************)
(* Specifications                                                          *)
(***************************************************************************)
Init == InitStore /\ InitNotify /\ InitGate /\ InitCrawl

\* one run of the main block
Next == MainStart \/ StartRequests \/ Parse \/ FetchFail \/ MainFinish \/ Signal
Spec == Init /\ [][Next]_vars

\* insert_listing called at will, over successive runs on one database file
NextStore == InsertListing \/ NewSession
SpecStore == Init /\ [][NextStore]_vars

\* send_notification called at will while time passes
NextNotify == Tick \/ SendNotification
SpecNotify == Init /\ [][NextNotify]_vars

\* validate_urls on any configuration and any robots.txt answer
NextGate == ValidateUrls
SpecGate == Init /\ [][NextGate]_vars

(***************************************************************************)
(* Properties of the store (checked under SpecStore)                       *)
(***************************************************************************)
\* the identity key of a logged call: title and link, each sanitised
KeyOf(c) == <<sanitize_input(c.title), sanitize_input(c.link)>>

\* the rows of the table that carry the key k
RowsWithKey(k) == {n \in DOMAIN listings : <<listings[n][1], listings[n][2]>> = k}

\* a call that passed the guard of insert_listing and met no sqlite3 error
Effective(c) == Accepts(c.title, c.link, c.price) /\ c.fault = "none"

C9_SessionScopedNewListings ==
    /\ get_new_listings = SubSeq(listings, Len(listings0) + 1, Len(listings))
    /\ LET Args(c) == <<c.title, c.link, c.price>>
           OfRun(r) == SelectSeq(calls, LAMBDA c : c.session = r)
           first == [i \in DOMAIN OfRun(1) |-> Args(OfRun(1)[i])]
           second == [i \in DOMAIN OfRun(2) |-> Args(OfRun(2)[i])]
       IN  (/\ session = 2
            /\ first # <<>>
            /\ second = first
            /\ \A i \in DOMAIN calls : calls[i].fault = "none")
           => get_new_listings = <<>>

(***************************************************************************)
(* Properties of the notifier (checked under SpecNotify)                   *)
(***************************************************************************)
\* C3 as stated: of two calls that both carry new listings, exactly one
\* dispatches a message when they are less than the throttle window apart, and
\* both dispatch when they are more than the window apart.
C3_NotificationThrottling ==
    \A i, j \in DOMAIN notes :
        (i < j /\ notes[i].nonempty /\ notes[j].nonempty) =>
            /\ (notes[j].t - notes[i].t < ThrottleWindow) =>
                   Cardinality({k \in {i, j} : notes[k].result = "sent"}) = 1
            /\ (notes[j].t - notes[i].t > ThrottleWindow) =>
                   (notes[i].result = "sent" /\ notes[j].result = "sent")

\* C4 as stated: a call with an empty list dispatches nothing and leaves
\* last_notification_time as it was.
C4_EmptyInputIsNoOp ==
    \A i \in DOMAIN notes :
        ~notes[i].nonempty =>
            /\ notes[i].result \notin {"sent", "failed", "raised"}
            /\ notes[i].after = notes[i].before

\* C5 as stated: a call whose dispatch fails leaves last_notification_time as
\* it was, so the next call that carries new listings is not throttled by it.
C5_FailedDispatchKeepsWindow ==
    \A i \in DOMAIN notes :
        notes[i].result = "failed" =>
            /\ notes[i].after = notes[i].before
            /\ (i + 1 \in DOMAIN notes /\ notes[i + 1].nonempty) =>
                   notes[i + 1].result # "throttled"

(***************************************************************************)
(* Properties of the gate (checked under SpecGate)                         *)
(***************************************************************************)
S_user_agent == <<"u","s","e","r","-","a","g","e","n","t",":">>
S_disallow == <<"d","i","s","a","l","l","o","w",":">>

\* the value of a robots.txt line "<field>: <value>", None for another line
FieldValue(line, field) ==
    IF StartsWith(Lower(line), field) THEN Strip(From(line, Len(field) + 1)) ELSE None

\* robots exclusion: the Disallow prefixes of the groups whose User-agent line
\* names the agent, or every agent with "*"
DisallowedFor(text, agent) ==
    {FieldValue(text[i], S_disallow) : i \in
        {k \in DOMAIN text :
            /\ Truthy(FieldValue(text[k], S_disallow))
            /\ \E j \in 1..(k - 1) :
                  /\ FieldValue(text[j], S_user_agent) \in {agent, <<"*">>}
                  /\ \A m \in (j + 1)..(k - 1) : FieldValue(text[m], S_user_agent) = None}}

\* the path of an absolute url
PathOf(url) == From(url, PathStart(url))

\* C7 as stated: validate_urls returns a subset of its input without repeats;
\* a well-formed url whose path lies under a prefix that robots.txt disallows
\* for the configured user agent is not returned, and a well-formed url under
\* no such prefix is returned.
C7_RobotsExclusion ==
    (robots.outcome = "response" /\ robots.status_code = 200) =>
        /\ valid_urls \subseteq Range(cfg_urls)
        /\ \A u \in Range(cfg_urls) :
              UrlPatternMatches(u) =>
                  (u \in valid_urls <=>
                      ~\E prefix \in DisallowedFor(robots.text, USER_AGENT) :
                          StartsWith(PathOf(u), prefix))

(***************************************************************************)
(* Properties of the crawl (checked under Spec)                            *)
(***************************************************************************)
\* C2 as stated: the cursor stays within 0..N, the sites are requested in list
\* order and none twice, and a run that has ended has requested every one of
\* its N sites and moved the cursor to N.
C2_SequentialExhaustiveCrawl ==
    /\ current_url_index \in 0..Len(urls)
    /\ Len(fetched) <= Len(urls)
    /\ fetched = SubSeq(urls, 1, Len(fetched))
    /\ pc = "finished" => (current_url_index = Len(urls) /\ fetched = urls)

\* C10 as stated: a site whose download failed stored nothing, the cursor moved
\* past it, and the run that has ended requested every site after it.
C10_FetchFailureIsolated ==
    \A i \in DOMAIN urls :
        (pc = "finished" /\ urls[i] \in failed) =>
            /\ current_url_index >= i
            /\ \A j \in (i + 1)..Len(urls) : urls[j] \in Range(fetched)

\* the rows created since the run opened the database
CreatedThisRun == SubSeq(listings, Len(listings0) + 1, Len(listings))

\* C6: what parse passed to insert_listing for the last response is, in page
\* order, exactly the candidates whose price is a number with
\* min_price <= price <= max_price; and every row created in the run has its
\* price in that band.
C6_InclusivePriceBand ==
    /\ response.selected =>
          LET cands == Candidates(response.url, response.items)
              kept == SelectSeq(cands, LAMBDA c : /\ c.price # NoPrice
                                                  /\ c.price >= min_price
                                                  /\ c.price <= max_price)
          IN  [i \in DOMAIN offered |->
                  [title |-> offered[i].title, link |-> offered[i].link,
                   price |-> offered[i].price]] = kept
    /\ \A n \in DOMAIN CreatedThisRun :
          CreatedThisRun[n][3] >= min_price /\ CreatedThisRun[n][3] <= max_price

\* a page with one item priced exactly max_price, which is offered and stored,
\* and one priced max_price + 1, which is not offered
C6_Witness ==
    /\ response.selected
    /\ \E i \in DOMAIN offered : offered[i].price = max_price
    /\ \E k \in DOMAIN response.items :
          Candidates(response.url, response.items)[k].price = max_price + 1
    /\ \E n \in DOMAIN CreatedThisRun : CreatedThisRun[n][3] = max_price

\* C8 as stated: an item that parse offers and that the store accepts without
\* error is in the table with the sanitised title and, as link, the absolute
\* url that urljoin made of the page url and the href.
C8_StoredRecordKeepsAbsoluteLink ==
    \A i \in DOMAIN offered :
        (offered[i].fault = "none" /\ Truthy(offered[i].title)) =>
            \E n \in DOMAIN listings :
                /\ listings[n][1] = sanitize_input(offered[i].title)
                /\ listings[n][2] = offered[i].link

\* C11 as stated: a run whose crawl has completed has called send_notification
\* with the records newly inserted in the run, and when that call was not
\* throttled and the list was not empty it ended in a dispatch attempt.
C11_RunEndNotification ==
    pc = "finished" =>
        \E i \in DOMAIN notes :
            /\ notes[i].nonempty = (get_new_listings # <<>>)
            /\ (notes[i].nonempty /\ notes[i].t - notes[i].before >= ThrottleWindow) =>
                   notes[i].result \in {"sent", "failed", "raised"}

\* C12: any two calls of send_notification in one process that both dispatched
\* their message successfully are at least the throttle window (3600 seconds)
\* apart.
C12_MinimumSpacingOfAlerts ==
    \A i, j \in DOMAIN notes :
        (i < j /\ notes[i].result = "sent" /\ notes[j].result = "sent") =>
            notes[j].t - notes[i].t >= ThrottleWindow

\* two successful dispatches in one process, with a throttled call between
\* them that came less than a window after the first
C12_Witness ==
    \E i, k, j \in DOMAIN notes :
        /\ i < k /\ k < j
        /\ notes[i].result = "sent" /\ notes[j].result = "sent"
        /\ notes[k].nonempty /\ notes[k].result = "throttled"
        /\ notes[k].t - notes[i].t < ThrottleWindow

\* whether the price text of an item yields an amount
HasAmount(item) == parse_price(TextOf(item.price, S_no_price)) # NoPrice

\* C13: an item whose price text yields no amount is not passed to
\* insert_listing, parse runs to its end (the cursor has moved on), and what
\* parse passed to insert_listing is what it passes for the page with the
\* unparsable items taken out: its candidates within the band, in page order.
C13_UnparsablePriceIsDropped ==
    response.selected =>
        LET siblings == SelectSeq(response.items, HasAmount)
            cands == Candidates(response.url, siblings)
            kept == SelectSeq(cands, LAMBDA c : min_price <= c.price /\ c.price <= max_price)
        IN  /\ \A i \in DOMAIN offered : offered[i].price # NoPrice
            /\ [i \in DOMAIN offered |->
                   [title |-> offered[i].title, link |-> offered[i].link,
                    price |-> offered[i].price]] = kept
            /\ current_url_index >= 1

\* a page whose first item has the price text "Price on request" and whose
\* second item is within the band: the second is offered and stored
C13_Witness ==
    /\ response.selected
    /\ Len(response.items) = 2
    /\ response.items[1].price = P_request
    /\ HasAmount(response.items[2])
    /\ Len(offered) = 1
    /\ offered[1].fault = "none"
    /\ \E n \in DOMAIN CreatedThisRun : CreatedThisRun[n][3] = offered[1].price

\* C14: in every state of a run at most one request is issued and not yet
\* answered, and the requests issued are never more than one ahead of the
\* cursor; and a step that issues the request of a further site is the parse
\* callback of the response to the request issued last: that request was
\* pending, its response is the one parse received, and the cursor moves by one.
C14_AtMostOneFetchInFlight ==
    /\ [](Cardinality(inflight) <= 1 /\ Len(fetched) <= current_url_index + 1)
    /\ [][(Len(fetched') > Len(fetched) /\ Len(fetched) >= 1) =>
             /\ Len(fetched') = Len(fetched) + 1
             /\ fetched[Len(fetched)] \in inflight
             /\ fetched[Len(fetched)] \notin inflight'
             /\ response'.url = fetched[Len(fetched)]
             /\ current_url_index' = current_url_index + 1]_vars

\* the second site has been requested from the parse of the first site's
\* response and is the one request in flight
C14_Witness ==
    /\ Len(urls) = 2
    /\ fetched = urls
    /\ response.url = urls[1]
    /\ current_url_index = 1
    /\ inflight = {urls[2]}

\* C15: no step changes or deletes a stored record: the table after the step
\* holds every row it held before, with the same title, link and price, and
\* has at least as many rows; and a call of insert_listing whose sanitised
\* (title, link) key is already stored, whatever its price, leaves the table
\* as it was.
C15_StoreRecordsImmutable ==
    [][/\ Len(listings') >= Len(listings)
       /\ \A n \in DOMAIN listings : listings'[n] = listings[n]
       /\ (Len(calls') > Len(calls) /\ RowsWithKey(KeyOf(calls'[Len(calls')])) # {})
              => listings' = listings]_vars

\* two accepted calls with the same key and different prices: the one stored
\* record carries the price of the first
C15_Witness ==
    /\ Len(calls) = 2
    /\ Effective(calls[1]) /\ Effective(calls[2])
    /\ KeyOf(calls[1]) = KeyOf(calls[2])
    /\ calls[1].price # calls[2].price
    /\ Len(listings) = 1
    /\ listings[1] = <<KeyOf(calls[1])[1], KeyOf(calls[1])[2], calls[1].price>>

\* C16 as stated: once a shutdown signal has arrived, at whatever point of the
\* main block, signal_handler has completed without raising, the database
\* connection is closed and the process has terminated through exit(0).
C16_CleanCancellation ==
    signalled # "no" =>
        /\ signalled = "handled"
        /\ connection = "closed"
        /\ pc = "exit0"

\* C17: every call of send_notification made less than the throttle window
\* (3600 seconds) after the start of the process, which is time 0, is
\* throttled: it dispatches nothing and leaves the timestamp alone, also when
\* it carries new listings and nothing was ever sent; until the first call that
\* is not throttled the timestamp is the start time.
C17_FirstWindowSuppression ==
    /\ \A i \in DOMAIN notes :
          notes[i].t < ThrottleWindow =>
              /\ notes[i].result = "throttled"
              /\ notes[i].after = notes[i].before
    /\ (\A i \in DOMAIN notes : notes[i].result = "throttled") => last_notification_time = 0

\* a call with new listings half an hour after the start, nothing sent before
\* it: it is throttled
C17_Witness ==
    /\ Len(notes) >= 1
    /\ notes[1].nonempty
    /\ notes[1].t = 1800
    /\ notes[1].result = "throttled"
    /\ notes[1].before = 0

\* C18 as stated: a call of insert_listing that meets a sqlite3 error, while
\* executing the statement or while committing it, stores nothing and is not
\* added to the newly-inserted list, and the call after it proceeds normally:
\* when that one meets no error and its key is not stored yet, it is stored and
\* reported as new.
C18_FailedInsertNotReported ==
    \A i \in DOMAIN calls :
        calls[i].fault # "none" =>
            /\ ~calls[i].stored
            /\ ~calls[i].new
            /\ (/\ i + 1 \in DOMAIN calls
                /\ Effective(calls[i + 1])
                /\ \A h \in 1..i : ~(calls[h].stored /\ KeyOf(calls[h]) = KeyOf(calls[i + 1])))
                   => (calls[i + 1].stored /\ calls[i + 1].new)

\* C19 as stated: every entry of get_new_listings is a record of
\* fetch_all_listings with the same title, link and price, and no (title, link)
\* key occurs twice in get_new_listings.
C19_NewListingsConsistentWithStore ==
    /\ \A i \in DOMAIN get_new_listings :
          \E n \in DOMAIN fetch_all_listings : fetch_all_listings[n] = get_new_listings[i]
    /\ \A i, j \in DOMAIN get_new_listings :
          (get_new_listings[i][1] = get_new_listings[j][1]
              /\ get_new_listings[i][2] = get_new_listings[j][2]) => i = j

\* C20 as stated: every stored record has a non-empty title and a non-empty
\* link, whatever title and link strings insert_listing was called with.
C20_NoEmptyIdentityFields ==
    \A n \in DOMAIN fetch_all_listings :
        fetch_all_listings[n][1] # <<>> /\ fetch_all_listings[n][2] # <<>>

====
